---- MODULE Spec2Model ----
(***************************************************************************)
(* Model of the HttpServer class (lib/classes/app) and of the way index.ts *)
(* uses it: the singleton factory, the middleware list, the "request"      *)
(* subscriptions added by get/post/put/delete, and the dispatch of one     *)
(* request through handleRequest, nextMiddleware, finalRequestHandler and  *)
(* the route subscriptions.                                                *)
(*                                                                         *)
(* One "request" event is emitted per incoming request.  The listeners of  *)
(* the event run synchronously in subscription order: first handleRequest  *)
(* (given to createServer in the constructor), then one listener per       *)
(* registerHandler call.  Nothing in the class catches an exception, so an *)
(* exception thrown by any listener leaves emit, skips the listeners after *)
(* it and ends the process.                                                *)
(***************************************************************************)
EXTENDS Integers, Sequences, FiniteSets, TLC

\* ----------------------------------------------------------------- bounds
MaxMiddlewares == 3
MaxRoutes == 2
MaxRequests == 2
\* index.ts makes its calls of app, listen, use and get in its start-up code,
\* which runs to its end before the first request event is delivered.  The
\* dispatcher reads this.middlewares at every continuation call, so use is
\* also allowed while requests are served, this many times.  A subscription
\* added after a request's event was emitted never runs for that request, so
\* get/post/put/delete are called in the start-up code only.
MaxLateUses == 1

\* ----------------------------------------------------------------- inputs
\* Methods a client may send; PATCH stands for every method outside the
\* four cases of finalRequestHandler's switch.
Methods == {"GET", "POST", "PUT", "DELETE", "PATCH"}
Urls == {"/ilia", "/other"}
\* What a middleware does with its continuation:
\*   halt  - returns without calling next (index.ts:10-12)
\*   next  - calls next() once before returning
\*   twice - calls next() two times before returning
\*   later - returns, and calls next() once from a later callback
MiddlewareKinds == {"halt", "next", "twice", "later"}

VARIABLES
    instance,       \* HttpServer.instance is set
    constructed,    \* how many times new HttpServer() has run
    appThrew,       \* the call just made was HttpServer.app() and it threw
    listening,      \* listen has been called
    middlewares,    \* this.middlewares
    subscriptions,  \* the "request" listeners added by registerHandler
    requests,       \* the requests received so far, each with its response
    lateUses,       \* calls of use made after the first request
    crashed         \* an exception escaped a callback: the process is gone

vars == <<instance, constructed, appThrew, listening, middlewares, subscriptions, requests,
         lateUses, crashed>>

\* ------------------------------------------------------- request, response
NoError == "none"

\* A ServerResponse before anything is written to it.
FreshResponse ==
    [headersSent |-> FALSE, ended |-> FALSE, status |-> 0,
     contentType |-> "", body |-> <<>>]

\* A request as the listener hands it to the "request" event, with the
\* closure state of handleRequest (currentMiddlewareIndex), the continuation
\* calls a "later" middleware still owes, and a trace of what ran: the calls
\* of middleware, of the continuation (with the cursor it sets), of the final
\* responder, of the route listeners and their callbacks, of writeHead and end.
NewRequest(method, url) ==
    [method |-> method, url |-> url, cursor |-> 0, pending |-> 0,
     log |-> <<>>, res |-> FreshResponse, thrown |-> NoError]

Log(rs, what, n) == [rs EXCEPT !.log = Append(@, <<what, n>>)]

Throw(rs, e) == [rs EXCEPT !.thrown = e]

\* res.writeHead(status, {"Content-Type": "text/plain"}): throws
\* ERR_HTTP_HEADERS_SENT once the header has been sent.
writeHead(rs, status) ==
    IF rs.thrown # NoError THEN rs
    ELSE LET r1 == Log(rs, "writeHead", status) IN
         IF r1.res.headersSent THEN Throw(r1, "ERR_HTTP_HEADERS_SENT")
         ELSE [r1 EXCEPT !.res.headersSent = TRUE, !.res.status = status,
                         !.res.contentType = "text/plain"]

\* res.end(body): sends the header (status 200 when writeHead was not
\* called), the body, and ends the stream; on an ended response it does
\* nothing and does not throw.
end(rs, body) ==
    IF rs.thrown # NoError THEN rs
    ELSE LET r1 == Log(rs, "end", 0) IN
         IF r1.res.ended THEN r1
         ELSE [r1 EXCEPT !.res.headersSent = TRUE, !.res.ended = TRUE,
                         !.res.status = IF rs.res.headersSent THEN @ ELSE 200,
                         !.res.body = body]

\* ------------------------------------------------------------- dispatcher
FinalMethods == {"GET", "POST", "PUT", "DELETE"}

\* finalRequestHandler with the default case of its switch lost: every method is
\* answered like GET.
finalRequestHandler_NoDefault(rs) ==
    IF rs.thrown # NoError THEN rs
    ELSE LET r1 == Log(rs, "final", 0) IN
         end(writeHead(r1, 200), <<"Received ", r1.method, " request for ", r1.url>>)

finalRequestHandler(rs) ==
    IF rs.thrown # NoError THEN rs
    ELSE LET r1 == Log(rs, "final", 0) IN
         IF r1.method \in FinalMethods
         THEN end(writeHead(r1, 200), <<"Received ", r1.method, " request for ", r1.url>>)
         ELSE end(writeHead(r1, 405), <<"Method ", r1.method, " not allowed">>)

RECURSIVE nextMiddleware(_, _)
RECURSIVE nextMiddleware_SkipOne(_, _)
RECURSIVE InvokeMiddleware(_, _)

\* this.middlewares[rs.cursor](req, res, nextMiddleware); an index past the
\* end reads undefined, and calling it throws a TypeError.
InvokeMiddleware(rs, mws) ==
    IF rs.thrown # NoError THEN rs
    ELSE IF rs.cursor >= Len(mws) THEN Throw(rs, "TypeError")
    ELSE LET r1 == Log(rs, "middleware", rs.cursor)
             kind == mws[rs.cursor + 1]
         IN CASE kind = "halt" -> r1
              [] kind = "next" -> nextMiddleware(r1, mws)
              [] kind = "twice" -> nextMiddleware(nextMiddleware(r1, mws), mws)
              [] kind = "later" -> [r1 EXCEPT !.pending = @ + 1]

\* nextMiddleware with the cursor advanced by two.
nextMiddleware_SkipOne(rs, mws) ==
    IF rs.thrown # NoError THEN rs
    ELSE LET r1 == Log([rs EXCEPT !.cursor = @ + 2], "next", rs.cursor + 2) IN
         IF r1.cursor < Len(mws)
         THEN InvokeMiddleware(r1, mws)
         ELSE finalRequestHandler(r1)

nextMiddleware(rs, mws) ==
    IF rs.thrown # NoError THEN rs
    ELSE LET r1 == Log([rs EXCEPT !.cursor = @ + 1], "next", rs.cursor + 1) IN
         IF r1.cursor < Len(mws)
         THEN InvokeMiddleware(r1, mws)
         ELSE finalRequestHandler(r1)

\* handleRequest with a test of the length added: an empty list goes straight
\* to the final responder.
handleRequest_EmptyToFinal(rs, mws) ==
    IF Len(mws) = 0 THEN finalRequestHandler([rs EXCEPT !.cursor = 0])
    ELSE InvokeMiddleware([rs EXCEPT !.cursor = 0], mws)

handleRequest(rs, mws) ==
    InvokeMiddleware([rs EXCEPT !.cursor = 0], mws)

\* The listener registerHandler(method, route, callback) subscribes; j is its
\* place among the subscriptions.  callback is the handler of index.ts, which
\* ends the response with its body.
RouteListener(rs, sub, j) ==
    IF rs.thrown # NoError THEN rs
    ELSE LET r1 == Log(rs, "listener", j) IN
         IF r1.method # sub.method
         THEN end(writeHead(r1, 405), <<"Method ", sub.method, " not allowed">>)
         ELSE IF r1.url # sub.route
         THEN end(writeHead(r1, 404), <<"Not found">>)
         ELSE end(Log(r1, "callback", j), <<sub.body>>)

RECURSIVE RunListeners(_, _, _)
RunListeners(rs, subs, j) ==
    IF j > Len(subs) THEN rs
    ELSE RunListeners(RouteListener(rs, subs[j], j), subs, j + 1)

\* server.emit("request", req, res)
emit(rs, mws, subs) == RunListeners(handleRequest(rs, mws), subs, 1)

\* ---------------------------------------------------------------- actions
Init ==
    /\ instance = FALSE
    /\ constructed = 0
    /\ appThrew = FALSE
    /\ listening = FALSE
    /\ middlewares = <<>>
    /\ subscriptions = <<>>
    /\ requests = <<>>
    /\ lateUses = 0
    /\ crashed = FALSE

\* The start-up code of the program is still running: no request has been
\* delivered yet.
StartUp == requests = <<>>

\* app() with the test of HttpServer.instance lost: every call constructs.
App_NoGuard ==
    /\ ~crashed
    /\ StartUp
    /\ instance' = TRUE
    /\ constructed' = constructed + 1
    /\ middlewares' = <<>>
    /\ subscriptions' = <<>>
    /\ appThrew' = FALSE
    /\ UNCHANGED <<listening, requests, lateUses, crashed>>

\* HttpServer.app()
App ==
    /\ ~crashed
    /\ StartUp
    /\ IF instance
       THEN /\ appThrew' = TRUE
            /\ UNCHANGED <<instance, constructed, listening, middlewares, subscriptions,
                           requests, lateUses, crashed>>
       ELSE /\ instance' = TRUE
            /\ constructed' = constructed + 1
            /\ middlewares' = <<>>
            /\ subscriptions' = <<>>
            /\ appThrew' = FALSE
            /\ UNCHANGED <<listening, requests, lateUses, crashed>>

\* app.listen(port, host, callback); a second listen on a listening server
\* is not modelled.
Listen ==
    /\ instance /\ ~crashed /\ ~listening
    /\ listening' = TRUE
    /\ appThrew' = FALSE
    /\ UNCHANGED <<instance, constructed, middlewares, subscriptions, requests, lateUses, crashed>>

\* use with unshift in place of push: the middleware is put in front.
Use_Unshift(kind) ==
    /\ instance /\ ~crashed
    /\ Len(middlewares) < MaxMiddlewares
    /\ IF StartUp
       THEN UNCHANGED lateUses
       ELSE /\ lateUses < MaxLateUses
            /\ lateUses' = lateUses + 1
    /\ middlewares' = <<kind>> \o middlewares
    /\ appThrew' = FALSE
    /\ UNCHANGED <<instance, constructed, listening, subscriptions, requests, crashed>>

\* app.use(middleware)
Use(kind) ==
    /\ instance /\ ~crashed
    /\ Len(middlewares) < MaxMiddlewares
    /\ IF StartUp
       THEN UNCHANGED lateUses
       ELSE /\ lateUses < MaxLateUses
            /\ lateUses' = lateUses + 1
    /\ middlewares' = Append(middlewares, kind)
    /\ appThrew' = FALSE
    /\ UNCHANGED <<instance, constructed, listening, subscriptions, requests, crashed>>

registerHandler(method, route, callback) ==
    /\ instance /\ ~crashed
    /\ Len(subscriptions) < MaxRoutes
    /\ StartUp
    /\ subscriptions' = Append(subscriptions, [method |-> method, route |-> route, body |-> callback])
    /\ appThrew' = FALSE
    /\ UNCHANGED <<instance, constructed, listening, middlewares, requests, lateUses, crashed>>

Get(route) == registerHandler("GET", route, "zd")
Post(route) == registerHandler("POST", route, "zd")
Put(route) == registerHandler("PUT", route, "zd")
Delete(route) == registerHandler("DELETE", route, "zd")

\* The listener receives a request and emits the "request" event.
Request(method, url) ==
    /\ instance /\ listening /\ ~crashed
    /\ Len(requests) < MaxRequests
    /\ LET rs == emit(NewRequest(method, url), middlewares, subscriptions) IN
        /\ requests' = Append(requests, rs)
        /\ crashed' = (rs.thrown # NoError)
    /\ appThrew' = FALSE
    /\ UNCHANGED <<instance, constructed, listening, middlewares, subscriptions, lateUses>>

\* Continuation with the middleware list as the start-up code left it: a use
\* made while requests are served is not seen.
Continuation_ListAtStartUp(i) ==
    /\ ~crashed
    /\ requests[i].pending > 0
    /\ LET rs == nextMiddleware([requests[i] EXCEPT !.pending = @ - 1],
                                SubSeq(middlewares, 1, Len(middlewares) - lateUses)) IN
        /\ requests' = [requests EXCEPT ![i] = rs]
        /\ crashed' = (rs.thrown # NoError)
    /\ appThrew' = FALSE
    /\ UNCHANGED <<instance, constructed, listening, middlewares, subscriptions, lateUses>>

\* Continuation with the cursor kept in the server, not in the closure of
\* handleRequest: every request sees the cursor the call leaves.
Continuation_SharedCursor(i) ==
    /\ ~crashed
    /\ requests[i].pending > 0
    /\ LET rs == nextMiddleware([requests[i] EXCEPT !.pending = @ - 1], middlewares) IN
        /\ requests' = [j \in 1..Len(requests) |->
                           IF j = i THEN rs ELSE [requests[j] EXCEPT !.cursor = rs.cursor]]
        /\ crashed' = (rs.thrown # NoError)
    /\ appThrew' = FALSE
    /\ UNCHANGED <<instance, constructed, listening, middlewares, subscriptions, lateUses>>

\* A "later" middleware of request i calls its continuation, from a callback
\* of its own.
Continuation(i) ==
    /\ ~crashed
    /\ requests[i].pending > 0
    /\ LET rs == nextMiddleware([requests[i] EXCEPT !.pending = @ - 1], middlewares) IN
        /\ requests' = [requests EXCEPT ![i] = rs]
        /\ crashed' = (rs.thrown # NoError)
    /\ appThrew' = FALSE
    /\ UNCHANGED <<instance, constructed, listening, middlewares, subscriptions, lateUses>>

Next ==
    \/ App
    \/ Listen
    \/ \E kind \in MiddlewareKinds : Use(kind)
    \/ \E route \in Urls : Get(route)
    \/ \E route \in Urls : Post(route)
    \/ \E route \in Urls : Put(route)
    \/ \E route \in Urls : Delete(route)
    \/ \E method \in Methods, url \in Urls : Request(method, url)
    \/ \E i \in 1..Len(requests) : Continuation(i)

Spec == Init /\ [][Next]_vars

\* ------------------------------------------------- reading a request's trace
Requests == {requests[i] : i \in 1..Len(requests)}

Entries(rs, what) == SelectSeq(rs.log, LAMBDA e : e[1] = what)
Count(rs, what) == Len(Entries(rs, what))

\* The indices of the middleware invoked for rs, in the order of invocation.
Invoked(rs) == [i \in 1..Count(rs, "middleware") |-> Entries(rs, "middleware")[i][2]]

\* Nothing is left to run for rs: emit has returned and no continuation is owed.
Complete(rs) == rs.pending = 0

\* The places of the registered middleware that never call their continuation.
Halting == {i \in 0..(Len(middlewares) - 1) : middlewares[i + 1] = "halt"}
\* k of the middleware list: the first of them, or the last index.
FirstHalt ==
    IF Halting = {} THEN Len(middlewares) - 1
    ELSE CHOOSE i \in Halting : \A j \in Halting : i <= j

UpTo(k) == [i \in 1..(k + 1) |-> i - 1]
IsPrefix(s, t) == Len(s) <= Len(t) /\ \A i \in 1..Len(s) : s[i] = t[i]

\* Where in the log of rs the response was written first (0: never), and the
\* entry before it: who wrote the response the client receives.
WriteAt(rs) ==
    LET W == {i \in 1..Len(rs.log) : rs.log[i][1] \in {"writeHead", "end"}} IN
    IF W = {} THEN 0 ELSE CHOOSE i \in W : \A j \in W : i <= j
WriterEntry(rs) == IF WriteAt(rs) <= 1 THEN <<"nobody", 0>> ELSE rs.log[WriteAt(rs) - 1]
Writer(rs) == WriterEntry(rs)[1]

\* The middleware list has been the same for every request received.
ListFixed == lateUses = 0

\* ----------------------------------------------------------------- claims

\* C1: for a middleware list m[0..n-1], n >= 1, the middleware invoked for a
\* request are m[0], ..., m[k] in that order, k the index of the first
\* middleware that does not call its continuation (n-1 if all do); none with
\* an index above k is invoked.
C1_InRegistrationOrderUpToFirstHalt ==
    \A rs \in Requests :
        (ListFixed /\ Len(middlewares) >= 1) =>
            /\ IsPrefix(Invoked(rs), UpTo(FirstHalt))
            /\ (Complete(rs) /\ rs.thrown = NoError) => Invoked(rs) = UpTo(FirstHalt)

\* C2: a response is finalized exactly once per request: when handling is
\* complete, the final responder and the route subscriptions (404/405 branch
\* or handler) have together finalized it once, not 0 times and not 2 or more.
\* (Stated for the requests handled without a fault; C10 is about the others.)
Finalizations(rs) == Count(rs, "final") + Count(rs, "listener")
C2_FinalizedExactlyOnce ==
    \A rs \in Requests :
        (Complete(rs) /\ rs.thrown = NoError) => Finalizations(rs) = 1

\* C3: if every registered middleware calls its continuation, the final
\* responder runs exactly once for the request.
C3_FinalRunsExactlyOnce ==
    \A rs \in Requests :
        (ListFixed /\ Halting = {} /\ Complete(rs)) => Count(rs, "final") = 1

\* C4: once a middleware that does not call its continuation has run, no
\* further middleware, no final responder and no route handler runs for the
\* request.
AfterHalt(rs) ==
    LET at == CHOOSE i \in 1..Len(rs.log) : rs.log[i] = <<"middleware", FirstHalt>>
    IN SubSeq(rs.log, at + 1, Len(rs.log))
C4_PipelineHalts ==
    \A rs \in Requests :
        (ListFixed /\ Halting # {} /\ <<"middleware", FirstHalt>> \in {rs.log[i] : i \in 1..Len(rs.log)}) =>
            \A i \in 1..Len(AfterHalt(rs)) :
                AfterHalt(rs)[i][1] \notin {"middleware", "final", "callback"}

\* C5: the 405 a route subscription writes on a method mismatch has the body
\* "Method M' not allowed", M' the method of the request.
C5_MismatchBodyNamesRequestMethod ==
    \A rs \in Requests : \A j \in 1..Len(subscriptions) :
        (WriterEntry(rs) = <<"listener", j>> /\ subscriptions[j].method # rs.method) =>
            /\ rs.res.status = 405
            /\ rs.res.body = <<"Method ", rs.method, " not allowed">>

\* C6: a request whose method and url are those of a registration has that
\* registration's handler invoked exactly once, whatever middleware is
\* registered.
C6_MatchingHandlerInvokedOnce ==
    \A rs \in Requests : \A j \in 1..Len(subscriptions) :
        (subscriptions[j].method = rs.method /\ subscriptions[j].route = rs.url) =>
            Len(SelectSeq(rs.log, LAMBDA e : e = <<"callback", j>>)) = 1

\* C7: after get(R, h), a request GET R' with R' # R is answered 404 "Not
\* found" (that is the response the client receives) and h is not invoked.
\* (Stated for a server with at least one middleware and for a url that no
\* registration has.)
Registered(url) == \E j \in 1..Len(subscriptions) : subscriptions[j].route = url
C7_RouteMismatchAnswered404 ==
    \A rs \in Requests : \A j \in 1..Len(subscriptions) :
        (/\ ListFixed /\ Len(middlewares) >= 1
         /\ subscriptions[j].method = "GET" /\ rs.method = "GET"
         /\ rs.url # subscriptions[j].route /\ ~Registered(rs.url)) =>
            /\ rs.res.status = 404
            /\ rs.res.body = <<"Not found">>
            /\ Len(SelectSeq(rs.log, LAMBDA e : e = <<"callback", j>>)) = 0

\* C8: what the final responder writes is decided by the method and url of
\* the request alone: for GET, POST, PUT, DELETE it calls writeHead with 200
\* and text/plain and ends the response with "Received <METHOD> request for
\* <URL>", for any other method it calls writeHead with 405 and ends it with
\* "Method <METHOD> not allowed".  Every run of the final responder makes that
\* writeHead call; the response the final responder wrote is exactly that
\* status, header and body, and it is ended.
C8_Status(method) == IF method \in {"GET", "POST", "PUT", "DELETE"} THEN 200 ELSE 405
C8_Body(method, url) ==
    IF method \in {"GET", "POST", "PUT", "DELETE"}
    THEN <<"Received ", method, " request for ", url>>
    ELSE <<"Method ", method, " not allowed">>
C8_FinalResponseFromMethodAndUrl ==
    \A rs \in Requests :
        /\ \A i \in 1..Len(rs.log) :
               rs.log[i][1] = "final" =>
                   /\ i < Len(rs.log)
                   /\ rs.log[i + 1] = <<"writeHead", C8_Status(rs.method)>>
        /\ Writer(rs) = "final" =>
               rs.res = [headersSent |-> TRUE, ended |-> TRUE,
                         status |-> C8_Status(rs.method),
                         contentType |-> "text/plain",
                         body |-> C8_Body(rs.method, rs.url)]
        /\ Count(rs, "final") > 0 => rs.res.ended
\* A PATCH request and a GET request have both been answered by the final
\* responder.
C8_Witness ==
    \E r1, r2 \in Requests :
        /\ r1.method = "PATCH" /\ Writer(r1) = "final" /\ r1.res.status = 405
        /\ r2.method = "GET" /\ Writer(r2) = "final" /\ r2.res.status = 200

\* C9: at most one HttpServer is ever constructed: the first call of app()
\* sets the instance, a call of app() while the instance exists throws and
\* leaves the instance, its middleware list and its subscriptions as they were.
C9_Singleton ==
    [][ /\ constructed' <= 1
        /\ instance => instance'
        /\ (App /\ ~instance) => (instance' /\ constructed' = 1 /\ ~appThrew')
        /\ (App /\ instance) => appThrew'
        /\ appThrew' => /\ instance
                        /\ UNCHANGED <<instance, constructed, listening, middlewares,
                                       subscriptions, requests>> ]_vars
\* app() has thrown on a server that has middleware and a route registered.
C9_Witness ==
    /\ appThrew /\ instance /\ constructed = 1
    /\ middlewares # <<>> /\ subscriptions # <<>>

\* C10: no fault raised while a request is handled escapes the request
\* callback; the process keeps serving.
C10_NoFaultEscapes ==
    /\ ~crashed
    /\ \A rs \in Requests : rs.thrown = NoError

\* C11: a request that arrives while the middleware list is empty fails at the
\* call of middlewares[0] (a TypeError that ends the process); nothing runs for
\* it, the final responder least of all.  (The list only grows and nothing is
\* registered after a fault, so an empty list now was empty at every arrival.)
C11_EmptyListFailsBeforeFinal ==
    \A rs \in Requests :
        middlewares = <<>> =>
            /\ rs.thrown = "TypeError"
            /\ rs.log = <<>>
            /\ Count(rs, "final") = 0
            /\ ~rs.res.headersSent
            /\ crashed
\* A request has arrived at a server with a route and no middleware.
C11_Witness ==
    /\ middlewares = <<>> /\ subscriptions # <<>>
    /\ \E rs \in Requests : rs.method = "GET" /\ rs.url = "/ilia"

\* C12: every middleware that runs for a request runs before any route
\* subscription (its 404/405 branch or its handler) and before the final
\* responder run for that request, also when a middleware calls its
\* continuation later.
C12_MiddlewareBeforeRoutesAndFinal ==
    \A rs \in Requests : \A i, j \in 1..Len(rs.log) :
        (rs.log[i][1] \in {"listener", "final"} /\ rs.log[j][1] = "middleware") => j < i

\* C13: with no registration in between, a request identical to one already
\* handled is handled the same way: the server is there to take it and it
\* gets the same calls and the same response.  (Stated for a server with at
\* least one middleware, none of which calls its continuation later.)
C13_RepeatedRequestSameResponse ==
    \A rs \in Requests :
        (/\ ListFixed /\ Complete(rs)
         /\ Len(middlewares) >= 1
         /\ \A i \in 1..Len(middlewares) : middlewares[i] # "later") =>
            /\ ~crashed
            /\ emit(NewRequest(rs.method, rs.url), middlewares, subscriptions) = rs

\* C14: the middleware list is append-only and in call order: a step either
\* leaves it as it is, or is use(m), which puts m at its end and changes
\* neither the instance, the subscriptions, the listener nor any request;
\* listen, get/post/put/delete and the handling of a request leave it as it is.
C14_AppendOnly ==
    [][ /\ \/ middlewares' = middlewares
           \/ \E kind \in MiddlewareKinds :
                  /\ Use(kind)
                  /\ middlewares' = Append(middlewares, kind)
                  /\ UNCHANGED <<instance, constructed, listening, subscriptions,
                                 requests, crashed>>
        /\ \A kind \in MiddlewareKinds :
               Use(kind) => middlewares' = Append(middlewares, kind)
        /\ (\/ Listen
            \/ \E route \in Urls : Get(route) \/ Post(route) \/ Put(route) \/ Delete(route)
            \/ \E method \in Methods, url \in Urls : Request(method, url)
            \/ \E i \in 1..Len(requests) : Continuation(i))
           => middlewares' = middlewares ]_vars
\* Three different middleware are registered, the last one after a request
\* was received, with a route registered and a request handled.
C14_Witness ==
    /\ middlewares = <<"next", "later", "halt">>
    /\ lateUses = 1
    /\ subscriptions # <<>>
    /\ requests # <<>>

\* C15: whenever the final responder has run for a request, every registered
\* middleware has been invoked for that request and none of them is one that
\* does not call its continuation, also when some middleware calls its
\* continuation more than once.
C15_FinalOnlyAfterFullChain ==
    \A rs \in Requests :
        (ListFixed /\ Count(rs, "final") > 0) =>
            /\ Halting = {}
            /\ {Invoked(rs)[i] : i \in 1..Len(Invoked(rs))} = 0..(Len(middlewares) - 1)

\* C16: with N registrations every request triggers exactly N route checks,
\* one per registration, each of which goes on to its 405 write, its 404 write
\* or its handler.  (Stated for a server with at least one middleware.)
C16_EveryRouteChecksEveryRequest ==
    \A rs \in Requests :
        Len(middlewares) >= 1 =>
            /\ Count(rs, "listener") = Len(subscriptions)
            /\ \A i \in 1..Len(rs.log) :
                   rs.log[i][1] = "listener" =>
                       /\ i < Len(rs.log)
                       /\ rs.log[i + 1] \in {<<"writeHead", 405>>, <<"writeHead", 404>>,
                                             <<"callback", rs.log[i][2]>>}

\* C17: within one request the cursor starts at 0 and goes up by exactly one
\* per call of the continuation, however many calls there are; middleware i is
\* invoked only by the call that sets the cursor to i (middleware 0 by
\* handleRequest), so the middleware invoked have increasing indices and none
\* is invoked twice.
C17_EachMiddlewareAtMostOnce ==
    \A rs \in Requests :
        /\ \A i \in 1..Count(rs, "next") : Entries(rs, "next")[i][2] = i
        /\ rs.cursor = Count(rs, "next")
        /\ \A i, j \in 1..Len(Invoked(rs)) : i < j => Invoked(rs)[i] < Invoked(rs)[j]
        /\ \A p \in 1..Len(rs.log) :
               rs.log[p][1] = "middleware" =>
                   IF rs.log[p][2] = 0 THEN p = 1
                   ELSE p > 1 /\ rs.log[p - 1] = <<"next", rs.log[p][2]>>
\* The continuation has been called more often than there are middleware, by
\* a middleware calling it twice, and all three middleware have run.
C17_Witness ==
    \E rs \in Requests :
        /\ Len(middlewares) = 3 /\ middlewares[1] = "twice"
        /\ Invoked(rs) = <<0, 1, 2>>
        /\ rs.cursor > Len(middlewares)

\* C18: the cursor belongs to the request: a continuation call of request i
\* advances the cursor of i and leaves every other request as it is, whatever
\* the interleaving; it runs the final responder for i exactly when a call
\* takes i's own cursor to the length of the list or past it, and i has seen
\* the middleware in increasing order.
C18_CursorPrivateToRequest ==
    [][ \A i \in 1..Len(requests) :
            Continuation(i) =>
                /\ \A j \in 1..Len(requests) : j # i => requests'[j] = requests[j]
                /\ requests'[i].cursor > requests[i].cursor
                /\ LET new == SubSeq(requests'[i].log, Len(requests[i].log) + 1,
                                      Len(requests'[i].log))
                   IN Len(SelectSeq(new, LAMBDA e : e[1] = "final")) =
                      Len(SelectSeq(new, LAMBDA e : e[1] = "next" /\ e[2] >= Len(middlewares)))
                /\ \A a, b \in 1..Len(Invoked(requests'[i])) :
                       a < b => Invoked(requests'[i])[a] < Invoked(requests'[i])[b] ]_vars
\* Two requests were in flight in a chain of two middleware that both call
\* their continuation later; one has been taken to the final responder while
\* the other still waits at the first middleware.
C18_Witness ==
    /\ Len(requests) = 2
    /\ middlewares = <<"later", "later">>
    /\ \E i, j \in 1..2 :
           /\ requests[i].cursor = 2 /\ Count(requests[i], "final") = 1
           /\ requests[j].cursor = 0 /\ requests[j].pending = 1

\* C19: the length of the middleware list is read at each continuation call:
\* when the continuation of an in-flight request is called and its cursor plus
\* one is below the present length of the list, middleware added since the
\* request arrived included, the call invokes the middleware at that index
\* and not the final responder.
C19_LateUseSeenByRequestInFlight ==
    [][ \A i \in 1..Len(requests) :
            (Continuation(i) /\ requests[i].cursor + 1 < Len(middlewares)) =>
                LET old == Len(requests[i].log)
                    c == requests[i].cursor + 1
                IN /\ Len(requests'[i].log) >= old + 2
                   /\ requests'[i].log[old + 1] = <<"next", c>>
                   /\ requests'[i].log[old + 2] = <<"middleware", c>> ]_vars
\* The first request arrived before the one late use; the middleware that use
\* added has run for it, and the final responder after that.
C19_Witness ==
    /\ lateUses = 1
    /\ Len(middlewares) >= 2
    /\ \E p, q \in 1..Len(requests[1].log) :
           /\ p < q
           /\ requests[1].log[p] = <<"middleware", Len(middlewares) - 1>>
           /\ requests[1].log[q][1] = "final"

====
